---- MODULE Spec2Model ----
(***************************************************************************)
(* Model of the two-tier file-system cache of caches/fileSystem.go:        *)
(* sharded entry files root/hex[0:2]/hex[2:4]/hex[4:] written by           *)
(* SaveEntry, the consolidated index entries.json written by Prune, and    *)
(* FindEntry, which consults the index first and the sharded file second.  *)
(*                                                                         *)
(* Time is counted in whole hours.  Byte strings are sequences of numbers  *)
(* 0..255, hex strings are sequences of one-character strings, and a path  *)
(* below the cache root is the sequence of its components.                 *)
(***************************************************************************)
EXTENDS Integers, Sequences, FiniteSets, TLC

VARIABLES
    now,          \* the wall clock, in hours
    ticks,        \* how often the clock has advanced (bounded by MaxTicks)
    rootExists,   \* whether the cache root directory exists
    dirs,         \* the shard directories below the root (paths of length 1 or 2)
    files,        \* the entry files: path |-> [content, mtime]
    entriesFile,  \* root/entries.json: [kind, entries, bad]
    everSaved,    \* the digests a caller has passed to SaveEntry so far
    calls,        \* how many calls have been made (bounded by MaxCalls)
    last,         \* the last call, its inputs and what it returned
    procs,        \* the calls in progress in concurrent processes, by process
    unlinked,     \* the entry files removed from the tree while a process has
                  \* them open: name |-> content
    stamps        \* how many characters the instants take that concurrent
                  \* processes see: [file, index]

vars == <<now, ticks, rootExists, dirs, files, entriesFile, everSaved, calls, last,
          procs, unlinked, stamps>>

(***************************************************************************)
(* Bounds of the model.                                                    *)
(***************************************************************************)
MaxTicks == 1
MaxCalls == 4

(***************************************************************************)
(* encoding/hex                                                            *)
(***************************************************************************)
hextable == <<"0", "1", "2", "3", "4", "5", "6", "7",
              "8", "9", "a", "b", "c", "d", "e", "f">>

EncodeToString(digest) ==
    [i \in 1..(2 * Len(digest)) |->
        IF i % 2 = 1 THEN hextable[(digest[(i + 1) \div 2] \div 16) + 1]
                     ELSE hextable[(digest[i \div 2] % 16) + 1]]

(***************************************************************************)
(* path.Join: empty elements are dropped.  s[lo:hi] of Go is               *)
(* SubSeq(s, lo+1, hi) and panics when hi exceeds the length.              *)
(***************************************************************************)
pathJoin(elems) == SelectSeq(elems, LAMBDA e : e # <<>>)

defineEntryPath(digest) ==
    LET encodedDigest == EncodeToString(digest)
    IN  IF Len(encodedDigest) < 4
        THEN [panic |-> TRUE, entryRoot |-> <<>>, entryPath |-> <<>>]
        ELSE LET entryRoot == pathJoin(<<SubSeq(encodedDigest, 1, 2),
                                         SubSeq(encodedDigest, 3, 4)>>)
                 entryPath == pathJoin(entryRoot \o
                                  <<SubSeq(encodedDigest, 5, Len(encodedDigest))>>)
             IN  [panic |-> FALSE, entryRoot |-> entryRoot, entryPath |-> entryPath]

(***************************************************************************)
(* The inputs the model draws from.                                        *)
(***************************************************************************)
ShortDigest == <<171, 1>>            \* ab01: hex[4:] is empty
Digest1 == <<171, 1, 205>>           \* ab01cd
Digest2 == <<172, 1, 205>>           \* ac01cd
Digests == {ShortDigest, Digest1, Digest2}

\* 0x61 is ASCII, 0xff is never valid UTF-8
Contents == {<<>>, <<97>>, <<255>>}

(***************************************************************************)
(* encoding/json writes a Go string coerced to valid UTF-8: each byte that *)
(* does not start a well-formed sequence becomes U+FFFD (ef bf bd).        *)
(***************************************************************************)
RuneError == <<239, 191, 189>>

IsCont(b) == b >= 128 /\ b <= 191

\* the length of the well-formed UTF-8 sequence at the head of s, 0 if none
RuneLen(s) ==
    LET b1 == s[1]
        b2 == s[2]
    IN  IF b1 < 128 THEN 1
        ELSE IF b1 >= 194 /\ b1 <= 223
        THEN IF Len(s) >= 2 /\ IsCont(b2) THEN 2 ELSE 0
        ELSE IF b1 >= 224 /\ b1 <= 239
        THEN IF /\ Len(s) >= 3
                /\ IsCont(b2) /\ IsCont(s[3])
                /\ (b1 = 224 => b2 >= 160)
                /\ (b1 = 237 => b2 <= 159)
             THEN 3 ELSE 0
        ELSE IF b1 >= 240 /\ b1 <= 244
        THEN IF /\ Len(s) >= 4
                /\ IsCont(b2) /\ IsCont(s[3]) /\ IsCont(s[4])
                /\ (b1 = 240 => b2 >= 144)
                /\ (b1 = 244 => b2 <= 143)
             THEN 4 ELSE 0
        ELSE 0

RECURSIVE ToValidUTF8(_)
ToValidUTF8(s) ==
    IF s = <<>> THEN <<>>
    ELSE LET n == RuneLen(s)
         IN  IF n = 0
             THEN RuneError \o ToValidUTF8(Tail(s))
             ELSE SubSeq(s, 1, n) \o ToValidUTF8(SubSeq(s, n + 1, Len(s)))

\* json.MarshalIndent of Entries followed by json.Unmarshal of the document:
\* keys and instants are kept, contents are coerced
MarshalEntries(entries) ==
    [k \in DOMAIN entries |->
        [content |-> ToValidUTF8(entries[k].content),
         last_used |-> entries[k].last_used]]

(***************************************************************************)
(* time.Duration(numWeeks*7*24) * time.Hour is an int64 count of           *)
(* nanoseconds and wraps at 2^63 ns = 2562047.78.. h.  Ages are whole      *)
(* hours here, so comparing an age with the wrapped value is comparing it  *)
(* with the wrapped value rounded down to the hour (2^64 ns = 5124095.57.. *)
(* h).  Exact for 0 <= numWeeks < 45750.                                   *)
(***************************************************************************)
HoursPerWeek == 7 * 24
MaxDurationHours == 2562047
DurationWrapHours == 5124096

Duration(numWeeks) ==
    LET h == numWeeks * HoursPerWeek
    IN  IF h > MaxDurationHours THEN h - DurationWrapHours ELSE h

\* the smallest window that no longer fits a time.Duration
OverflowWeeks == (MaxDurationHours \div HoursPerWeek) + 1

(***************************************************************************)
(* The file system below the cache root.                                   *)
(* fs = [rootExists, dirs, files]; a call either succeeds or fails with    *)
(* the injected fault.                                                     *)
(***************************************************************************)
EmptyMap == [x \in {} |-> x]

Restrict(f, S) == [x \in S |-> f[x]]

Prefixes(path) == {SubSeq(path, 1, k) : k \in 1..Len(path)}

\* os.MkdirAll(path.Join(root, dir), 0755)
MkdirAll(fs, dir) ==
    [fs EXCEPT !.rootExists = TRUE, !.dirs = @ \cup Prefixes(dir)]

\* mutant: the file is opened without O_TRUNC and written at its end
CreateFileNoTrunc(fls, entryPath, t) ==
    [p \in DOMAIN fls \cup {entryPath} |->
        IF p = entryPath
        THEN [content |-> IF p \in DOMAIN fls THEN fls[p].content ELSE <<>>,
              mtime |-> t]
        ELSE fls[p]]

\* os.Create: O_RDWR|O_CREATE|O_TRUNC, the file is emptied and its mtime set
CreateFile(fls, entryPath, t) ==
    [p \in DOMAIN fls \cup {entryPath} |->
        IF p = entryPath THEN [content |-> <<>>, mtime |-> t] ELSE fls[p]]

\* File.Write at the current offset of a file just created
WriteBytes(fls, entryPath, bytes, t) ==
    [fls EXCEPT ![entryPath] = [content |-> @.content \o bytes, mtime |-> t]]

\* what os.Stat sees at a path below the root
StatExists(fs, entryPath) == entryPath \in DOMAIN fs.files \/ entryPath \in fs.dirs

SaveFaults == {"none", "mkdir", "create", "write"}

(***************************************************************************)
(* SaveEntry (lines 110-129).  `written` is the number of bytes that       *)
(* reached the file when Write fails.                                      *)
(***************************************************************************)
SaveEntryFx(fs, digest, content, fault, written, t) ==
    LET p == defineEntryPath(digest)
    IN  IF p.panic THEN [fs |-> fs, err |-> "panic"]
        ELSE IF fault = "mkdir" THEN [fs |-> fs, err |-> "EIO"]
        ELSE LET fs1 == MkdirAll(fs, p.entryRoot)
             IN  IF p.entryPath \in fs1.dirs THEN [fs |-> fs1, err |-> "EISDIR"]
                 ELSE IF fault = "create" THEN [fs |-> fs1, err |-> "EIO"]
                 ELSE LET created == CreateFile(fs1.files, p.entryPath, t)
                      IN  IF fault = "write"
                          THEN [fs |-> [fs1 EXCEPT !.files =
                                          WriteBytes(created, p.entryPath,
                                                     SubSeq(content, 1, written), t)],
                                err |-> "EIO"]
                          ELSE [fs |-> [fs1 EXCEPT !.files =
                                          WriteBytes(created, p.entryPath, content, t)],
                                err |-> "nil"]

(***************************************************************************)
(* The index file is [kind, entries, bad]: kind "absent", "valid" (JSON    *)
(* text) or "corrupt" (not JSON text, as after a truncation); entries are  *)
(* the members that are well-formed Entry objects; bad are the keys of the *)
(* members whose value has another JSON type (a number, say).              *)
(*                                                                         *)
(* json.Unmarshal into Entries: text that is not JSON is rejected before   *)
(* anything is stored; a member of the wrong type is recorded as an        *)
(* UnmarshalTypeError, its key is stored with the zero Entry, and decoding *)
(* goes on with the next member.                                           *)
(***************************************************************************)
IndexFile(kind, entries) == [kind |-> kind, entries |-> entries, bad |-> {}]

\* time.Time{} is the year 1: older than any Duration before any clock reading
ZeroTime == 0 - 4 * DurationWrapHours

ZeroEntry == [content |-> <<>>, last_used |-> ZeroTime]

Unmarshal(file) ==
    IF file.kind = "corrupt" THEN [entries |-> EmptyMap, err |-> TRUE]
    ELSE [entries |-> [k \in DOMAIN file.entries \cup file.bad |->
                         IF k \in file.bad THEN ZeroEntry ELSE file.entries[k]],
          err |-> file.bad # {}]

\* mutant: the index file is never found
readJsonEmpty(file, fault) == EmptyMap

(***************************************************************************)
(* readJson (lines 47-64): a missing or unreadable file gives no entries,  *)
(* an undecodable one the entries Unmarshal has stored.                    *)
(***************************************************************************)
readJson(file, fault) ==
    IF file.kind = "absent" THEN EmptyMap
    ELSE IF fault = "readJson" THEN EmptyMap
    ELSE Unmarshal(file).entries

\* a []byte result: nil, or a slice (possibly empty)
NilBytes == [isNil |-> TRUE, bytes |-> <<>>]
Bytes(b) == [isNil |-> FALSE, bytes |-> b]

\* mutant: every error of os.Stat is returned, os.IsNotExist is not asked
checkFsEntryNoNotExist(fs, digest, fault, written) ==
    LET p == defineEntryPath(digest)
    IN  IF p.panic THEN [res |-> NilBytes, err |-> "panic", tier |-> "none"]
        ELSE IF fault = "stat" \/ ~StatExists(fs, p.entryPath)
        THEN [res |-> NilBytes, err |-> "ENOENT", tier |-> "none"]
        ELSE IF p.entryPath \in fs.dirs
        THEN [res |-> Bytes(<<>>), err |-> "EISDIR", tier |-> "none"]
        ELSE [res |-> Bytes(fs.files[p.entryPath].content), err |-> "nil",
              tier |-> "fs"]

\* mutant: every error of os.Stat counts as "does not exist"
checkFsEntryStatMiss(fs, digest, fault, written) ==
    LET p == defineEntryPath(digest)
    IN  IF p.panic THEN [res |-> NilBytes, err |-> "panic", tier |-> "none"]
        ELSE IF fault = "stat" \/ ~StatExists(fs, p.entryPath)
        THEN [res |-> NilBytes, err |-> "nil", tier |-> "none"]
        ELSE IF fault = "open" THEN [res |-> NilBytes, err |-> "EIO", tier |-> "none"]
        ELSE IF p.entryPath \in fs.dirs
        THEN [res |-> Bytes(<<>>), err |-> "EISDIR", tier |-> "none"]
        ELSE IF fault = "read"
        THEN [res |-> Bytes(SubSeq(fs.files[p.entryPath].content, 1, written)),
              err |-> "EIO", tier |-> "none"]
        ELSE [res |-> Bytes(fs.files[p.entryPath].content), err |-> "nil",
              tier |-> "fs"]

(***************************************************************************)
(* checkFsEntry (lines 80-99)                                              *)
(***************************************************************************)
checkFsEntry(fs, digest, fault, written) ==
    LET p == defineEntryPath(digest)
    IN  IF p.panic THEN [res |-> NilBytes, err |-> "panic", tier |-> "none"]
        ELSE IF fault = "stat" THEN [res |-> NilBytes, err |-> "EIO", tier |-> "none"]
        ELSE IF ~StatExists(fs, p.entryPath)
        THEN [res |-> NilBytes, err |-> "nil", tier |-> "none"]
        ELSE IF fault = "open" THEN [res |-> NilBytes, err |-> "EIO", tier |-> "none"]
        ELSE IF p.entryPath \in fs.dirs
        THEN [res |-> Bytes(<<>>), err |-> "EISDIR", tier |-> "none"]
        ELSE IF fault = "read"
        THEN [res |-> Bytes(SubSeq(fs.files[p.entryPath].content, 1, written)),
              err |-> "EIO", tier |-> "none"]
        ELSE [res |-> Bytes(fs.files[p.entryPath].content), err |-> "nil",
              tier |-> "fs"]

\* the fault, if any, that hits the SaveEntry call of checkJsonEntry
SaveFaultOf(fault) == IF fault \in SaveFaults THEN fault ELSE "none"

\* mutant: an index hit is returned without the SaveEntry call
FindEntryFxNoTouch(fs, file, digest, fault, written, t) ==
    LET entries == readJson(file, fault)
        key == EncodeToString(digest)
        r == checkFsEntry(fs, digest, fault, written)
    IN  IF key \in DOMAIN entries
        THEN [fs |-> fs, file |-> file, res |-> Bytes(entries[key].content),
              err |-> "nil", tier |-> "json"]
        ELSE [fs |-> fs, file |-> file, res |-> r.res, err |-> r.err,
              tier |-> r.tier]

(***************************************************************************)
(* FindEntry (lines 103-108) with checkJsonEntry (lines 67-77): an index   *)
(* hit is written to the sharded file by SaveEntry, whose error is         *)
(* dropped; the index file is only read.                                   *)
(***************************************************************************)
FindEntryFx(fs, file, digest, fault, written, t) ==
    LET entries == readJson(file, fault)
        key == EncodeToString(digest)
    IN  IF key \in DOMAIN entries
        THEN LET result == entries[key].content
                 sv == SaveEntryFx(fs, digest, result, SaveFaultOf(fault), written, t)
             IN  IF sv.err = "panic"
                 THEN [fs |-> fs, file |-> file, res |-> NilBytes, err |-> "panic",
                       tier |-> "none"]
                 ELSE [fs |-> sv.fs, file |-> file, res |-> Bytes(result),
                       err |-> "nil", tier |-> "json"]
        ELSE LET r == checkFsEntry(fs, digest, fault, written)
             IN  [fs |-> fs, file |-> file, res |-> r.res, err |-> r.err,
                  tier |-> r.tier]

(***************************************************************************)
(* Prune (lines 141-220).  At most one call of the pass fails: MkdirAll of *)
(* the root, the read of the index, the walk (on the root, before any file *)
(* is visited), the read or the removal of one file, ReadDir, RemoveAll    *)
(* (on the first directory), or the write of the index (on open, leaving   *)
(* the file as it was, or after the truncation, leaving it empty).         *)
(***************************************************************************)
PruneFaults == {"none", "mkdirRoot", "readJson", "walk", "read", "remove",
                "readDir", "removeAll", "writeOpen", "writeData"}

\* line 164-166: the digest is the two parent names plus the file name
WalkDigest(path) ==
    LET parent1 == path[Len(path) - 2]
        parent2 == path[Len(path) - 1]
        name == path[Len(path)]
    IN  parent1 \o parent2 \o name

\* the files whose content ioutil.ReadFile returns during the walk
WalkRead(fls, fault, target) ==
    {p \in DOMAIN fls : ~(fault = "read" /\ p = target)}

\* lines 157-167: every file read is upserted with its bytes and its mtime
WalkEntries(entries, fls, migrated) ==
    [k \in DOMAIN entries \cup {WalkDigest(p) : p \in migrated} |->
        IF \E p \in migrated : WalkDigest(p) = k
        THEN LET p == CHOOSE q \in migrated : WalkDigest(q) = k
             IN  [content |-> fls[p].content, last_used |-> fls[p].mtime]
        ELSE entries[k]]

\* lines 170-173: os.Remove of every file read, a failure is only logged
WalkRemove(fls, migrated, fault, target) ==
    Restrict(fls, {p \in DOMAIN fls :
                     ~(p \in migrated /\ ~(fault = "remove" /\ p = target))})

\* lines 185-194: os.RemoveAll of every directory directly below the root
RemoveShardDirs(fs) ==
    LET top == {d \in fs.dirs : Len(d) = 1}
        gone(p) == <<p[1]>> \in top
    IN  [fs EXCEPT !.dirs = {d \in @ : ~gone(d)},
                   !.files = Restrict(@, {p \in DOMAIN @ : ~gone(p)})]

\* mutant: the operands of Sub are swapped
KeepEntrySwapped(t, lastUsed, numWeeks) == lastUsed - t <= Duration(numWeeks)

\* line 201
KeepEntry(t, lastUsed, numWeeks) == t - lastUsed <= Duration(numWeeks)

\* lines 199-204
PrunedEntries(entries, numWeeks, t) ==
    Restrict(entries, {k \in DOMAIN entries :
                         KeepEntry(t, entries[k].last_used, numWeeks)})

PruneFx(fs, file, numWeeks, fault, target, t) ==
    LET fs0 == [fs EXCEPT !.rootExists = TRUE]
        entries0 == readJson(file, fault)
        migrated == WalkRead(fs.files, fault, target)
        entries == WalkEntries(entries0, fs.files, migrated)
        fs1 == [fs0 EXCEPT !.files = WalkRemove(@, migrated, fault, target)]
        fs2 == RemoveShardDirs(fs1)
        prunedEntries == PrunedEntries(entries, numWeeks, t)
        found == Cardinality(DOMAIN entries)
        diff == found - Cardinality(DOMAIN prunedEntries)
        failed(f, x) == [fs |-> f, file |-> x, err |-> "EIO", found |-> 0, removed |-> 0]
    IN  IF fault = "mkdirRoot" THEN failed(fs, file)
        ELSE IF fault = "walk" THEN failed(fs0, file)
        ELSE IF fault = "readDir" THEN failed(fs1, file)
        ELSE IF fault = "removeAll" /\ fs1.dirs # {} THEN failed(fs1, file)
        ELSE IF fault = "writeOpen"
        THEN [fs |-> fs2, file |-> file, err |-> "EIO",
              found |-> found, removed |-> diff]
        ELSE IF fault = "writeData"
        THEN [fs |-> fs2, file |-> IndexFile("corrupt", EmptyMap),
              err |-> "EIO", found |-> found, removed |-> diff]
        ELSE [fs |-> fs2,
              file |-> IndexFile("valid", MarshalEntries(prunedEntries)),
              err |-> "nil", found |-> found, removed |-> diff]

(***************************************************************************)
(* The state machine.                                                      *)
(***************************************************************************)
FS == [rootExists |-> rootExists, dirs |-> dirs, files |-> files]

(***************************************************************************)
(* The text of an instant.  time.Time is marshalled (line 21) in the       *)
(* layout RFC3339Nano: 20 characters for a whole second in UTC, as in      *)
(* 2024-01-01T12:34:56Z, up to 35 with nine digits of a second's fraction  *)
(* and a zone offset, as in 2024-01-01T12:34:56.123456789+01:00.  The      *)
(* clock of this model counts hours; what an instant has below the hour    *)
(* shows only in the length of its text, which is kept for the one file    *)
(* and the one index entry of the concurrent processes.                    *)
(***************************************************************************)
StampShort == 20

StampLong == 35

StampLens == {StampShort, StampLong}

NoStamps == [file |-> StampShort, index |-> StampShort]

\* a process: where its call stands, and the call's local variables
NoDoc == [kind |-> "none"]

NoProc == [pc |-> "idle", lvl |-> 0, content |-> <<>>, buf |-> <<>>,
           fd |-> "none", res |-> NilBytes, err |-> "nil", during |-> FALSE,
           entries |-> EmptyMap, doc |-> NoDoc, off |-> 0, torn |-> FALSE,
           mtime |-> 0, fstamp |-> StampShort, stamp |-> StampShort]

Procs == {"save1", "save2", "find", "prune"}

NoCall == [op |-> "init", digest |-> <<>>, content |-> <<>>, numWeeks |-> 0,
           fault |-> "none", time |-> 0, res |-> NilBytes, err |-> "nil",
           tier |-> "none", found |-> 0, removed |-> 0, again |-> FALSE]

Init ==
    /\ now = 0
    /\ ticks = 0
    /\ rootExists = FALSE
    /\ dirs = {}
    /\ files = EmptyMap
    /\ entriesFile = IndexFile("absent", EmptyMap)
    /\ everSaved = {}
    /\ calls = 0
    /\ last = NoCall
    /\ procs = [p \in Procs |-> NoProc]
    /\ unlinked = EmptyMap
    /\ stamps = NoStamps

Jumps == {1, HoursPerWeek}

Tick(jump) ==
    /\ ticks < MaxTicks
    /\ ticks' = ticks + 1
    /\ now' = now + jump
    /\ UNCHANGED <<rootExists, dirs, files, entriesFile, everSaved, calls, last, procs,
                   unlinked, stamps>>

\* the byte counts a failed Write or Read may stop at
PartialLens(bytes) == 0..(IF Len(bytes) = 0 THEN 0 ELSE Len(bytes) - 1)

SaveEntry(digest, content, fault, written) ==
    LET r == SaveEntryFx(FS, digest, content, fault, written, now)
    IN  /\ calls < MaxCalls
        /\ calls' = calls + 1
        /\ rootExists' = r.fs.rootExists
        /\ dirs' = r.fs.dirs
        /\ files' = r.fs.files
        /\ everSaved' = everSaved \cup {digest}
        /\ last' = [NoCall EXCEPT !.op = "save", !.digest = digest,
                       !.content = content, !.fault = fault, !.time = now,
                       !.err = r.err]
        /\ UNCHANGED <<now, ticks, entriesFile, procs, unlinked, stamps>>

FindEntry(digest, fault, written) ==
    LET r == FindEntryFx(FS, entriesFile, digest, fault, written, now)
    IN  /\ calls < MaxCalls
        /\ calls' = calls + 1
        /\ rootExists' = r.fs.rootExists
        /\ dirs' = r.fs.dirs
        /\ files' = r.fs.files
        /\ entriesFile' = r.file
        /\ last' = [NoCall EXCEPT !.op = "find", !.digest = digest,
                       !.fault = fault, !.time = now, !.res = r.res,
                       !.err = r.err, !.tier = r.tier]
        /\ UNCHANGED <<now, ticks, everSaved, procs, unlinked, stamps>>

Prune(numWeeks, fault, target) ==
    LET r == PruneFx(FS, entriesFile, numWeeks, fault, target, now)
    IN  /\ calls < MaxCalls
        /\ calls' = calls + 1
        /\ rootExists' = r.fs.rootExists
        /\ dirs' = r.fs.dirs
        /\ files' = r.fs.files
        /\ entriesFile' = r.file
        /\ last' = [NoCall EXCEPT !.op = "prune", !.numWeeks = numWeeks,
                       !.fault = fault, !.time = now, !.err = r.err,
                       !.found = r.found, !.removed = r.removed,
                       !.again = /\ last.op = "prune"
                                 /\ last.err = "nil"
                                 /\ last.numWeeks = numWeeks
                                 /\ last.time = now]
        /\ UNCHANGED <<now, ticks, everSaved, procs, unlinked, stamps>>

\* the faults that can hit a call in the current state
FindFaultsHere(digest) ==
    LET key == EncodeToString(digest)
        hit == entriesFile.kind # "absent" /\ key \in DOMAIN entriesFile.entries
        path == defineEntryPath(digest).entryPath
    IN  {"none"}
        \cup (IF entriesFile.kind # "absent" THEN {"readJson"} ELSE {})
        \cup (IF hit THEN {"mkdir", "create", "write"} ELSE {"stat"})
        \cup (IF ~hit /\ StatExists(FS, path) THEN {"open"} ELSE {})
        \cup (IF ~hit /\ path \in DOMAIN files THEN {"read"} ELSE {})

FindPartial(digest, fault) ==
    LET key == EncodeToString(digest)
        path == defineEntryPath(digest).entryPath
    IN  IF fault = "write" THEN PartialLens(entriesFile.entries[key].content)
        ELSE IF fault = "read" THEN PartialLens(files[path].content)
        ELSE {0}

PruneFaultsHere ==
    PruneFaults
      \ ((IF entriesFile.kind = "absent" THEN {"readJson"} ELSE {})
         \cup (IF DOMAIN files = {} THEN {"read", "remove"} ELSE {})
         \cup (IF dirs = {} THEN {"removeAll"} ELSE {}))

NoPath == <<>>

PruneTargets(fault) == IF fault \in {"read", "remove"} THEN DOMAIN files ELSE {NoPath}

\* the retention windows tried: none, one week, one too long for a Duration
WeeksSet == {0, 1, OverflowWeeks}

(***************************************************************************)
(* Spec: callers on a file system whose calls do not fail.                 *)
(***************************************************************************)
SaveInputs ==
    {<<Digest1, c>> : c \in Contents}
        \cup {<<Digest2, <<97>>>>, <<ShortDigest, <<97>>>>}

Next ==
    \/ \E jump \in Jumps : Tick(jump)
    \/ \E in \in SaveInputs : SaveEntry(in[1], in[2], "none", 0)
    \/ \E digest \in Digests : FindEntry(digest, "none", 0)
    \/ \E numWeeks \in WeeksSet : Prune(numWeeks, "none", NoPath)

Spec == Init /\ [][Next]_vars

(***************************************************************************)
(* SpecFaults: the same callers, and any single call of the file system    *)
(* may fail.                                                               *)
(***************************************************************************)
FaultDigests == {Digest1}

FaultContents == {<<97>>, <<255>>}

NextFaults ==
    \/ \E jump \in Jumps : Tick(jump)
    \/ \E digest \in FaultDigests, content \in FaultContents, fault \in SaveFaults :
         \E written \in (IF fault = "write" THEN PartialLens(content) ELSE {0}) :
            SaveEntry(digest, content, fault, written)
    \/ \E digest \in FaultDigests :
         \E fault \in FindFaultsHere(digest) :
            \E written \in FindPartial(digest, fault) :
               FindEntry(digest, fault, written)
    \/ \E numWeeks \in WeeksSet :
         \E fault \in PruneFaultsHere :
            \E target \in PruneTargets(fault) :
               Prune(numWeeks, fault, target)

SpecFaults == Init /\ [][NextFaults]_vars

(***************************************************************************)
(* SpecEdit: the callers of Spec, and somebody who edits the index file by *)
(* hand (the file is indented JSON so that it can be read and changed):    *)
(* "garble" leaves text that is not JSON, "member" leaves JSON in which    *)
(* the value under one key is a number instead of an Entry object.         *)
(***************************************************************************)
EditModes == {"garble", "member"}

EditIndex(mode, key) ==
    /\ entriesFile.kind = "valid"
    /\ entriesFile.bad = {}
    /\ entriesFile' =
          IF mode = "garble"
          THEN [entriesFile EXCEPT !.kind = "corrupt"]
          ELSE [entriesFile EXCEPT
                  !.entries = Restrict(@, DOMAIN @ \ {key}),
                  !.bad = {key}]
    /\ last' = [NoCall EXCEPT !.op = "edit"]
    /\ UNCHANGED <<now, ticks, rootExists, dirs, files, everSaved, calls, procs,
                   unlinked, stamps>>

EditDigests == {Digest1, Digest2}

NextEdit ==
    \/ \E jump \in Jumps : Tick(jump)
    \/ \E digest \in EditDigests : SaveEntry(digest, <<97>>, "none", 0)
    \/ \E digest \in EditDigests : FindEntry(digest, "none", 0)
    \/ \E numWeeks \in {0, 1} : Prune(numWeeks, "none", NoPath)
    \/ \E mode \in EditModes, digest \in EditDigests :
         EditIndex(mode, EncodeToString(digest))

SpecEdit == Init /\ [][NextEdit]_vars

(***************************************************************************)
(* SpecConc: four processes share the cache root, each making one call on  *)
(* the same digest: two SaveEntry calls of different content, a FindEntry  *)
(* and a Prune(1).  A step is one system call (stat, mkdir, open, read,    *)
(* write, unlink, rmdir, a directory listing); steps of different          *)
(* processes interleave.  A call whose result is the same in every state   *)
(* of this specification is taken together with the call that follows it:  *)
(* the fstat and close of an open file, the open of a file or directory    *)
(* that only this process could have removed, the Lstat of a directory     *)
(* just listed, the unlink that os.Remove and os.RemoveAll first try on a  *)
(* directory.  The processes start on a cache that earlier calls have      *)
(* filled: a SaveEntry, or a SaveEntry and a Prune.  The clock stands      *)
(* still.                                                                  *)
(***************************************************************************)
ConcDigest == Digest1

ConcPath == defineEntryPath(ConcDigest)

StoredContent == <<100>>

SaveContent(p) == IF p = "save1" THEN <<97, 98>> ELSE <<99>>

Savers == {"save1", "save2"}

Readers == {"find", "prune"}

ConcWeeks == 1

InitSaved ==
    [fs |-> SaveEntryFx([rootExists |-> FALSE, dirs |-> {}, files |-> EmptyMap],
                        ConcDigest, StoredContent, "none", 0, 0).fs,
     file |-> IndexFile("absent", EmptyMap), op |-> "save"]

InitPruned ==
    LET r == PruneFx(InitSaved.fs, InitSaved.file, ConcWeeks, "none", NoPath, 0)
    IN  [fs |-> r.fs, file |-> r.file, op |-> "prune"]

InitConc ==
    \E start \in {InitSaved, InitPruned}, n \in StampLens :
        /\ now = 0
        /\ ticks = 0
        /\ rootExists = start.fs.rootExists
        /\ dirs = start.fs.dirs
        /\ files = start.fs.files
        /\ entriesFile = start.file
        /\ everSaved = {ConcDigest}
        /\ calls = 0
        /\ last = [NoCall EXCEPT !.op = start.op]
        /\ procs = [p \in Procs |-> NoProc]
        /\ unlinked = EmptyMap
        /\ stamps = IF start.op = "save" THEN [NoStamps EXCEPT !.file = n]
                    ELSE [NoStamps EXCEPT !.index = n]

\* the directories from the root down to entryRoot: level 0 is the root
Depth == Len(ConcPath.entryRoot)

DirAt(k) == SubSeq(ConcPath.entryRoot, 1, k)

DirExists(k) == IF k = 0 THEN rootExists ELSE DirAt(k) \in dirs

\* rmdir succeeds on a directory with no entry
DirEmpty(k) ==
    /\ \A d \in dirs : ~(Len(d) > k /\ SubSeq(d, 1, k) = DirAt(k))
    /\ \A f \in DOMAIN files : SubSeq(f, 1, k) # DirAt(k)

\* a write of the bytes at offset 0: what lies beyond them stays
Overwrite(old, bytes) == bytes \o SubSeq(old, Len(bytes) + 1, Len(old))

\* File.Write on a descriptor just opened
WriteAt(fls, entryPath, bytes, t) ==
    [fls EXCEPT ![entryPath] =
        [content |-> Overwrite(@.content, bytes), mtime |-> t]]

\* the content behind an open descriptor
FdContent(fd) ==
    IF fd = "file" THEN files[ConcPath.entryPath].content ELSE unlinked[fd]

\* what a read at the end of the bytes read so far returns
ReadChunk(content, buf) == SubSeq(content, Len(buf) + 1, Len(content))

UnlinkedNames == {"u1", "u2"}

\* unlink of the entry file: the processes that have it open keep the file
\* without its name
UnlinkOpen(ps) ==
    LET holders == {p \in Procs : ps[p].fd = "file"}
        name == CHOOSE u \in UnlinkedNames : u \notin DOMAIN unlinked
    IN  IF ConcPath.entryPath \notin DOMAIN files \/ holders = {}
        THEN [procs |-> ps, unlinked |-> unlinked]
        ELSE [procs |-> [p \in Procs |->
                           IF p \in holders THEN [ps[p] EXCEPT !.fd = name]
                           ELSE ps[p]],
              unlinked |-> [u \in DOMAIN unlinked \cup {name} |->
                              IF u = name THEN files[ConcPath.entryPath].content
                              ELSE unlinked[u]]]

\* Close of the descriptor of p: a file without name and without other
\* descriptor is gone
Closed(unl, p) ==
    IF /\ procs[p].fd \in DOMAIN unl
       /\ \A q \in Procs \ {p} : procs[q].fd # procs[p].fd
    THEN Restrict(unl, DOMAIN unl \ {procs[p].fd})
    ELSE unl

\* a process other than the pruner returns during the pass
DuringPrune == procs["prune"].pc \notin {"idle", "done"}

\* SaveEntry returns; checkJsonEntry drops the error (line 75)
SaveReturn(ps, p, err) ==
    [ps EXCEPT ![p].pc = "done", ![p].fd = "none", ![p].lvl = 0,
               ![p].err = IF p \in Savers THEN err ELSE "nil",
               ![p].during = DuringPrune]

\* os.MkdirAll has the directory of level k: it makes the next one, or
\* returns nil to SaveEntry (line 113)
MkdirDone(ps, p, k) ==
    IF k = Depth
    THEN [ps EXCEPT ![p].pc = "create", ![p].lvl = 0, ![p].err = "nil"]
    ELSE [ps EXCEPT ![p].pc = "mkdir", ![p].lvl = k + 1, ![p].err = "nil"]

\* os.MkdirAll: Stat of the path, and of the parent if it is not there
MkdirStat(p) ==
    /\ \/ p \in Savers /\ procs[p].pc = "idle"
       \/ procs[p].pc = "stat"
    /\ LET k == IF procs[p].pc = "idle" THEN Depth ELSE procs[p].lvl
           ps == [procs EXCEPT ![p].content = IF p \in Savers THEN SaveContent(p)
                                              ELSE @]
       IN  procs' = IF DirExists(k) THEN MkdirDone(ps, p, k)
                    ELSE IF k = 0 THEN [ps EXCEPT ![p].pc = "mkdir", ![p].lvl = 0]
                    ELSE [ps EXCEPT ![p].pc = "stat", ![p].lvl = k - 1]
    /\ UNCHANGED <<now, ticks, rootExists, dirs, files, entriesFile, everSaved,
                   calls, last, unlinked, stamps>>

\* os.MkdirAll: Mkdir of the path once the parent is there
MkdirMake(p) ==
    /\ procs[p].pc = "mkdir"
    /\ LET k == procs[p].lvl
       IN  IF DirExists(k)
           THEN /\ procs' = [procs EXCEPT ![p].pc = "lstat", ![p].err = "EEXIST"]
                /\ UNCHANGED <<rootExists, dirs>>
           ELSE IF k > 0 /\ ~DirExists(k - 1)
           THEN /\ procs' = [procs EXCEPT ![p].pc = "lstat", ![p].err = "ENOENT"]
                /\ UNCHANGED <<rootExists, dirs>>
           ELSE /\ rootExists' = (rootExists \/ k = 0)
                /\ dirs' = IF k = 0 THEN dirs ELSE dirs \cup {DirAt(k)}
                /\ procs' = MkdirDone(procs, p, k)
    /\ UNCHANGED <<now, ticks, files, entriesFile, everSaved, calls, last, unlinked, stamps>>

\* os.MkdirAll: after a failed Mkdir, Lstat tells whether the directory is
\* there all the same; if not, the error of Mkdir is returned (line 115)
MkdirLstat(p) ==
    /\ procs[p].pc = "lstat"
    /\ procs' = IF DirExists(procs[p].lvl) THEN MkdirDone(procs, p, procs[p].lvl)
                ELSE SaveReturn(procs, p, procs[p].err)
    /\ UNCHANGED <<now, ticks, rootExists, dirs, files, entriesFile, everSaved,
                   calls, last, unlinked, stamps>>

\* line 118: os.Create fails when the directory has been removed meanwhile;
\* the file it makes or truncates has the instant of the call as its mtime
SaveCreate(p) ==
    /\ procs[p].pc = "create"
    /\ IF DirExists(Depth)
       THEN /\ files' = CreateFile(files, ConcPath.entryPath, now)
            /\ procs' = [procs EXCEPT ![p].pc = "created", ![p].fd = "file"]
            /\ \E n \in StampLens : stamps' = [stamps EXCEPT !.file = n]
       ELSE /\ files' = files
            /\ procs' = SaveReturn(procs, p, "ENOENT")
            /\ stamps' = stamps
    /\ UNCHANGED <<now, ticks, rootExists, dirs, entriesFile, everSaved, calls,
                   last, unlinked>>

\* lines 123-128: Write, which sets the mtime, and the deferred Close
SaveWrite(p) ==
    /\ procs[p].pc = "created"
    /\ IF procs[p].fd = "file"
       THEN /\ files' = WriteAt(files, ConcPath.entryPath, procs[p].content, now)
            /\ unlinked' = unlinked
            /\ \E n \in StampLens : stamps' = [stamps EXCEPT !.file = n]
       ELSE /\ files' = files
            /\ unlinked' = Closed([unlinked EXCEPT ![procs[p].fd] =
                                     Overwrite(@, procs[p].content)], p)
            /\ stamps' = stamps
    /\ procs' = SaveReturn(procs, p, "nil")
    /\ UNCHANGED <<now, ticks, rootExists, dirs, entriesFile, everSaved, calls, last>>

(***************************************************************************)
(* The size in bytes of the document json.MarshalIndent(entries, "", "  ") *)
(* makes (line 215): "{" and "}", and for every entry its key, the text of *)
(* its instant and 33 bytes of quotes, the name last_used, indentation and *)
(* separators; a content that is not empty adds its bytes and the 19 of    *)
(* its line, and an empty one is left out (omitempty, line 20).  The       *)
(* contents here are text that JSON does not escape, and the entries are   *)
(* of one digest, whose instant takes stamp characters.  A truncated file  *)
(* has size 0.                                                             *)
(***************************************************************************)
EntryFrame == 33

ContentFrame == 19

EntrySize(key, entry, stamp) ==
    Len(key) + EntryFrame + stamp
        + (IF entry.content = <<>> THEN 0 ELSE ContentFrame + Len(entry.content))

RECURSIVE EntriesSize(_, _)
EntriesSize(entries, stamp) ==
    IF DOMAIN entries = {} THEN 0
    ELSE LET k == CHOOSE x \in DOMAIN entries : TRUE
         IN  EntrySize(k, entries[k], stamp)
                + EntriesSize(Restrict(entries, DOMAIN entries \ {k}), stamp)

DocSize(file, stamp) ==
    IF file.kind = "valid" THEN 2 + EntriesSize(file.entries, stamp) ELSE 0

\* readJson has returned: checkJsonEntry looks the digest up (lines 69-76),
\* Prune starts the walk (line 150)
Decoded(p, entries) ==
    LET key == EncodeToString(ConcDigest)
        ps == [procs EXCEPT ![p].entries = entries, ![p].doc = NoDoc,
                            ![p].off = 0, ![p].torn = FALSE,
                            ![p].stamp = IF p = "prune" /\ key \in DOMAIN entries
                                         THEN stamps.index ELSE StampShort]
    IN  IF p = "prune" THEN [ps EXCEPT ![p].pc = "w_dir", ![p].lvl = 0]
        ELSE IF key \in DOMAIN entries
        THEN [ps EXCEPT ![p].pc = "stat", ![p].lvl = Depth,
                        ![p].content = entries[key].content,
                        ![p].res = Bytes(entries[key].content)]
        ELSE [ps EXCEPT ![p].pc = "estat"]

\* line 48: os.Stat of entries.json
JsonStat(p) ==
    /\ \/ p = "find" /\ procs[p].pc = "idle"
       \/ p = "prune" /\ procs[p].pc = "jstat"
    /\ procs' = IF entriesFile.kind = "absent" THEN Decoded(p, EmptyMap)
                ELSE [procs EXCEPT ![p].pc = "jread"]
    /\ UNCHANGED <<now, ticks, rootExists, dirs, files, entriesFile, everSaved,
                   calls, last, unlinked, stamps>>

\* lines 52-63: a read of ioutil.ReadFile.  The first one returns the
\* document as it is; a later one returns what a rewrite has put beyond the
\* bytes read, which leaves text that is not JSON; a read that returns
\* nothing ends the file, and the bytes read are decoded.
JsonRead(p) ==
    /\ procs[p].pc = "jread"
    /\ LET size == DocSize(entriesFile, stamps.index)
       IN  procs' =
             IF size > procs[p].off
             THEN [procs EXCEPT ![p].off = size,
                                ![p].doc = IF @ = NoDoc THEN entriesFile ELSE @,
                                ![p].torn = procs[p].doc # NoDoc]
             ELSE Decoded(p, IF procs[p].doc = NoDoc \/ procs[p].torn THEN EmptyMap
                             ELSE Unmarshal(procs[p].doc).entries)
    /\ UNCHANGED <<now, ticks, rootExists, dirs, files, entriesFile, everSaved,
                   calls, last, unlinked, stamps>>

\* checkFsEntry returns to the caller of FindEntry
FindReturn(p, res, err) ==
    [procs EXCEPT ![p].pc = "done", ![p].fd = "none", ![p].buf = <<>>,
                  ![p].res = res, ![p].err = err, ![p].during = DuringPrune]

\* lines 82-90
FindStat ==
    /\ procs["find"].pc = "estat"
    /\ procs' = IF StatExists(FS, ConcPath.entryPath)
                THEN [procs EXCEPT !["find"].pc = "eopen"]
                ELSE FindReturn("find", NilBytes, "nil")
    /\ UNCHANGED <<now, ticks, rootExists, dirs, files, entriesFile, everSaved,
                   calls, last, unlinked, stamps>>

\* lines 92-95: os.Open fails when the file has been removed since os.Stat
FindOpen ==
    /\ procs["find"].pc = "eopen"
    /\ procs' = IF ConcPath.entryPath \in DOMAIN files
                THEN [procs EXCEPT !["find"].pc = "eread", !["find"].fd = "file"]
                ELSE FindReturn("find", NilBytes, "ENOENT")
    /\ UNCHANGED <<now, ticks, rootExists, dirs, files, entriesFile, everSaved,
                   calls, last, unlinked, stamps>>

\* line 98: a read of ioutil.ReadAll; the one that returns nothing ends it
FindRead ==
    /\ procs["find"].pc = "eread"
    /\ LET chunk == ReadChunk(FdContent(procs["find"].fd), procs["find"].buf)
       IN  IF chunk # <<>>
           THEN /\ procs' = [procs EXCEPT !["find"].buf = @ \o chunk]
                /\ unlinked' = unlinked
           ELSE /\ procs' = FindReturn("find", Bytes(procs["find"].buf), "nil")
                /\ unlinked' = Closed(unlinked, "find")
    /\ UNCHANGED <<now, ticks, rootExists, dirs, files, entriesFile, everSaved,
                   calls, last, stamps>>

\* line 143: os.MkdirAll of the root, which is there
PruneMkdirRoot ==
    /\ procs["prune"].pc = "idle"
    /\ rootExists' = TRUE
    /\ procs' = [procs EXCEPT !["prune"].pc = "jstat"]
    /\ UNCHANGED <<now, ticks, dirs, files, entriesFile, everSaved, calls, last,
                   unlinked, stamps>>

\* line 150: filepath.Walk lists the directory of level k and goes down
\* into what it lists (lines 154-156 for directories and the index file)
PruneWalkDir ==
    /\ procs["prune"].pc = "w_dir"
    /\ LET k == procs["prune"].lvl
       IN  procs' =
             IF k < Depth /\ DirExists(k + 1)
             THEN [procs EXCEPT !["prune"].lvl = k + 1]
             ELSE IF k = Depth /\ ConcPath.entryPath \in DOMAIN files
             THEN [procs EXCEPT !["prune"].pc = "w_lstat", !["prune"].lvl = 0]
             ELSE [procs EXCEPT !["prune"].pc = "readdir", !["prune"].lvl = 0]
    /\ UNCHANGED <<now, ticks, rootExists, dirs, files, entriesFile, everSaved,
                   calls, last, unlinked, stamps>>

\* line 150: the Lstat of the file, whose ModTime line 167 uses
PruneLstat ==
    /\ procs["prune"].pc = "w_lstat"
    /\ procs' = [procs EXCEPT !["prune"].pc = "w_read",
                              !["prune"].mtime = files[ConcPath.entryPath].mtime,
                              !["prune"].fstamp = stamps.file]
    /\ UNCHANGED <<now, ticks, rootExists, dirs, files, entriesFile, everSaved,
                   calls, last, unlinked, stamps>>

\* lines 157-167: a read of ioutil.ReadFile; after the one that returns
\* nothing the bytes read are upserted
PruneRead ==
    /\ procs["prune"].pc = "w_read"
    /\ LET chunk == ReadChunk(files[ConcPath.entryPath].content, procs["prune"].buf)
           entries == procs["prune"].entries
           key == WalkDigest(ConcPath.entryPath)
       IN  procs' =
             IF chunk # <<>>
             THEN [procs EXCEPT !["prune"].buf = @ \o chunk]
             ELSE [procs EXCEPT
                     !["prune"].pc = "w_remove",
                     !["prune"].buf = <<>>,
                     !["prune"].mtime = 0,
                     !["prune"].stamp = procs["prune"].fstamp,
                     !["prune"].fstamp = StampShort,
                     !["prune"].entries =
                        [x \in DOMAIN entries \cup {key} |->
                           IF x = key
                           THEN [content |-> procs["prune"].buf,
                                 last_used |-> procs["prune"].mtime]
                           ELSE entries[x]]]
    /\ UNCHANGED <<now, ticks, rootExists, dirs, files, entriesFile, everSaved,
                   calls, last, unlinked, stamps>>

\* lines 170-173
PruneRemove ==
    /\ procs["prune"].pc = "w_remove"
    /\ LET u == UnlinkOpen([procs EXCEPT !["prune"].pc = "readdir"])
       IN  /\ procs' = u.procs
           /\ unlinked' = u.unlinked
    /\ files' = Restrict(files, DOMAIN files \ {ConcPath.entryPath})
    /\ UNCHANGED <<now, ticks, rootExists, dirs, entriesFile, everSaved, calls, last,
                   stamps>>

\* lines 181-189: os.ReadDir of the root
PruneReadDir ==
    /\ procs["prune"].pc = "readdir"
    /\ procs' = IF DirExists(1) THEN [procs EXCEPT !["prune"].pc = "r_remove"]
                ELSE [procs EXCEPT !["prune"].pc = "trunc"]
    /\ UNCHANGED <<now, ticks, rootExists, dirs, files, entriesFile, everSaved,
                   calls, last, unlinked, stamps>>

\* line 190: os.RemoveAll first tries Remove, which succeeds on an empty
\* directory
PruneRemoveDir ==
    /\ procs["prune"].pc = "r_remove"
    /\ IF DirEmpty(1)
       THEN /\ dirs' = dirs \ {DirAt(1)}
            /\ procs' = [procs EXCEPT !["prune"].pc = "trunc"]
       ELSE /\ dirs' = dirs
            /\ procs' = [procs EXCEPT !["prune"].pc = "r_list", !["prune"].lvl = 1]
    /\ UNCHANGED <<now, ticks, rootExists, files, entriesFile, everSaved, calls,
                   last, unlinked, stamps>>

\* line 190: os.RemoveAll lists the directory of level k and removes what
\* it lists before the directory itself
PruneListDir ==
    /\ procs["prune"].pc = "r_list"
    /\ LET k == procs["prune"].lvl
       IN  procs' =
             IF k < Depth /\ DirExists(k + 1)
             THEN [procs EXCEPT !["prune"].lvl = k + 1]
             ELSE IF k = Depth /\ ConcPath.entryPath \in DOMAIN files
             THEN [procs EXCEPT !["prune"].pc = "r_unlink"]
             ELSE [procs EXCEPT !["prune"].pc = "r_rmdir"]
    /\ UNCHANGED <<now, ticks, rootExists, dirs, files, entriesFile, everSaved,
                   calls, last, unlinked, stamps>>

\* line 190: os.RemoveAll unlinks a file it has listed
PruneUnlink ==
    /\ procs["prune"].pc = "r_unlink"
    /\ LET u == UnlinkOpen([procs EXCEPT !["prune"].pc = "r_rmdir"])
       IN  /\ procs' = u.procs
           /\ unlinked' = u.unlinked
    /\ files' = Restrict(files, DOMAIN files \ {ConcPath.entryPath})
    /\ UNCHANGED <<now, ticks, rootExists, dirs, entriesFile, everSaved, calls, last,
                   stamps>>

\* lines 190-193: os.RemoveAll removes the directory of level k, which
\* fails when an entry has been put into it since the listing; it goes on
\* with the parent, and Prune returns the error of the top directory
PruneRmdir ==
    /\ procs["prune"].pc = "r_rmdir"
    /\ LET k == procs["prune"].lvl
           err == IF DirEmpty(k) THEN "nil" ELSE "ENOTEMPTY"
       IN  /\ dirs' = IF DirEmpty(k) THEN dirs \ {DirAt(k)} ELSE dirs
           /\ procs' =
                IF k > 1
                THEN [procs EXCEPT !["prune"].lvl = k - 1, !["prune"].err = err]
                ELSE IF err = "nil"
                THEN [procs EXCEPT !["prune"].pc = "trunc", !["prune"].lvl = 0,
                                   !["prune"].err = "nil"]
                ELSE [procs EXCEPT !["prune"].pc = "done", !["prune"].lvl = 0,
                                   !["prune"].err = err,
                                   !["prune"].entries = EmptyMap]
    /\ UNCHANGED <<now, ticks, rootExists, files, entriesFile, everSaved, calls,
                   last, unlinked, stamps>>

\* lines 197-219, up to the open of ioutil.WriteFile, which truncates the
\* index file: it is an empty document until the data is written
PruneTruncate ==
    /\ procs["prune"].pc = "trunc"
    /\ entriesFile' = IndexFile("corrupt", EmptyMap)
    /\ procs' = [procs EXCEPT
                   !["prune"].pc = "write",
                   !["prune"].entries =
                      MarshalEntries(PrunedEntries(@, ConcWeeks, now))]
    /\ UNCHANGED <<now, ticks, rootExists, dirs, files, everSaved, calls, last,
                   unlinked, stamps>>

\* line 219: the write of the data
PruneWrite ==
    /\ procs["prune"].pc = "write"
    /\ entriesFile' = IndexFile("valid", procs["prune"].entries)
    /\ stamps' = [stamps EXCEPT !.index = procs["prune"].stamp]
    /\ procs' = [procs EXCEPT !["prune"].pc = "done",
                              !["prune"].stamp = StampShort]
    /\ UNCHANGED <<now, ticks, rootExists, dirs, files, everSaved, calls, last,
                   unlinked>>

Callers == Savers \cup {"find"}

NextConc ==
    \/ \E p \in Callers : MkdirStat(p)
    \/ \E p \in Callers : MkdirMake(p)
    \/ \E p \in Callers : MkdirLstat(p)
    \/ \E p \in Callers : SaveCreate(p)
    \/ \E p \in Callers : SaveWrite(p)
    \/ \E p \in Readers : JsonStat(p)
    \/ \E p \in Readers : JsonRead(p)
    \/ FindStat
    \/ FindOpen
    \/ FindRead
    \/ PruneMkdirRoot
    \/ PruneWalkDir
    \/ PruneLstat
    \/ PruneRead
    \/ PruneRemove
    \/ PruneReadDir
    \/ PruneRemoveDir
    \/ PruneListDir
    \/ PruneUnlink
    \/ PruneRmdir
    \/ PruneTruncate
    \/ PruneWrite

SpecConc == InitConc /\ [][NextConc]_vars

(***************************************************************************)
(* Vocabulary of the properties.                                           *)
(***************************************************************************)
Key(digest) == EncodeToString(digest)

EntryPath(digest) == defineEntryPath(digest).entryPath

\* the digests the path resolver accepts: at least 5 hex characters
LongDigest(digest) == Len(EncodeToString(digest)) >= 5

InIndex(file, digest) == Key(digest) \in DOMAIN file.entries

InShards(fls, digest) == EntryPath(digest) \in DOMAIN fls

\* the step is a call of the named operation
Call(op) == calls' = calls + 1 /\ last'.op = op

\* the retention window in hours, as a number
Window(numWeeks) == numWeeks * HoursPerWeek

\* the last-used time a prune pass sees for a digest held in some tier
LastUsedOf(digest) ==
    IF InShards(files, digest) THEN files[EntryPath(digest)].mtime
    ELSE entriesFile.entries[Key(digest)].last_used

Held(digest) == InShards(files, digest) \/ InIndex(entriesFile, digest)

(***************************************************************************)
(* C1: once save(D, C) has returned success for a digest of at least 5 hex *)
(* characters, the next find(D), with no call in between, returns exactly  *)
(* C and no error.                                                         *)
(***************************************************************************)
C1_RoundTrip ==
    [][(/\ last.op = "save" /\ last.err = "nil" /\ LongDigest(last.digest)
        /\ Call("find") /\ last'.digest = last.digest)
       => (last'.err = "nil" /\ last'.res = Bytes(last.content))]_vars

(***************************************************************************)
(* C2 as stated: find(D) of any digest never passed to save returns absent *)
(* and no error and leaves both tiers unchanged.                           *)
(***************************************************************************)
C2_MissAnyDigest ==
    [][(Call("find") /\ last'.digest \notin everSaved)
       => (/\ last'.res = NilBytes /\ last'.err = "nil"
           /\ UNCHANGED <<rootExists, dirs, files, entriesFile>>)]_vars

(***************************************************************************)
(* C2 amended: find(D) of a digest of at least 5 hex characters that was   *)
(* never passed to save returns absent and no error and leaves both tiers  *)
(* unchanged.                                                              *)
(***************************************************************************)
C2_Miss ==
    [][(Call("find") /\ last'.digest \notin everSaved /\ LongDigest(last'.digest))
       => (/\ last'.res = NilBytes /\ last'.err = "nil"
           /\ UNCHANGED <<rootExists, dirs, files, entriesFile>>)]_vars

\* a never-saved long digest was looked up while other digests were cached
C2_Witness ==
    /\ last.op = "find" /\ last.digest \notin everSaved /\ LongDigest(last.digest)
    /\ last.res = NilBytes /\ last.err = "nil"
    /\ DOMAIN files # {} /\ DOMAIN entriesFile.entries # {}

(***************************************************************************)
(* C3: after a prune pass that returns success (with a window that a       *)
(* Duration can hold) no entry file remains, and every sharded entry that  *)
(* existed at the start and whose mtime is within the window is in the     *)
(* persisted index under hex(D), with content equal to the file's bytes    *)
(* and lastUsed equal to the file's mtime.                                 *)
(***************************************************************************)
C3_MigrationByPrune ==
    [][(Call("prune") /\ last'.err = "nil" /\ last'.numWeeks < OverflowWeeks)
       => (/\ files' = EmptyMap
           /\ \A d \in Digests :
                (/\ InShards(files, d)
                 /\ now - files[EntryPath(d)].mtime <= Window(last'.numWeeks))
                => (/\ InIndex(entriesFile', d)
                    /\ entriesFile'.entries[Key(d)] =
                         [content |-> files[EntryPath(d)].content,
                          last_used |-> files[EntryPath(d)].mtime]))]_vars

(***************************************************************************)
(* C4: after a successful prune pass with window W = numWeeks * 7 * 24     *)
(* hours at time now, an entry with last-used time T (pre-existing or just *)
(* migrated) is in the persisted index if and only if now - T <= W.        *)
(***************************************************************************)
C4_RetentionBoundary ==
    [][(Call("prune") /\ last'.err = "nil")
       => \A d \in Digests :
            Held(d) => (InIndex(entriesFile', d)
                          <=> now - LastUsedOf(d) <= Window(last'.numWeeks))]_vars

(***************************************************************************)
(* C5: a successful prune pass removes from both tiers every saved digest  *)
(* whose last-used time is older than the window; a digest held by neither *)
(* tier is reported absent, with no error, by find; and only a save of it  *)
(* brings it back.                                                         *)
(***************************************************************************)
C5_EvictionComplete ==
    [][/\ (Call("prune") /\ last'.err = "nil")
          => \A d \in everSaved :
               (Held(d) /\ now - LastUsedOf(d) > Window(last'.numWeeks))
               => (~InIndex(entriesFile', d) /\ ~InShards(files', d))
       /\ \A d \in everSaved :
            (LongDigest(d) /\ ~Held(d))
            => /\ (Call("find") /\ last'.digest = d)
                  => (last'.res = NilBytes /\ last'.err = "nil")
               /\ (InIndex(entriesFile', d) \/ InShards(files', d))
                  => (Call("save") /\ last'.digest = d)]_vars

\* a digest that was saved is looked up after its eviction and is absent
C5_Witness ==
    /\ last.op = "find" /\ last.digest \in everSaved /\ LongDigest(last.digest)
    /\ last.res = NilBytes /\ last.err = "nil"
    /\ entriesFile.kind = "valid"

(***************************************************************************)
(* C6: a prune pass that follows a successful pass with the same window at *)
(* the same time, with no call in between, changes nothing: the index file *)
(* is the same and the sharded tree stays empty.                           *)
(***************************************************************************)
C6_PruneIdempotent ==
    [][(/\ last.op = "prune" /\ last.err = "nil"
        /\ Call("prune") /\ last'.fault = "none"
        /\ last'.numWeeks = last.numWeeks /\ last.time = now)
       => (/\ last'.err = "nil"
           /\ entriesFile' = entriesFile
           /\ files = EmptyMap /\ files' = EmptyMap
           /\ dirs = {} /\ dirs' = {})]_vars

\* the second of two passes ran over an index that holds entries
C6_Witness ==
    /\ last.op = "prune" /\ last.again /\ last.err = "nil"
    /\ last.found > 0 /\ last.removed = 0

(***************************************************************************)
(* C7: after find(D) returned a hit served from the sharded tier (D not in *)
(* the index, the sharded file of D present with content C), the index     *)
(* file holds an entry for D whose content is C.                           *)
(***************************************************************************)
C7_MigrationOnRead ==
    [][(Call("find") /\ last'.tier = "fs")
       => (/\ InIndex(entriesFile', last'.digest)
           /\ entriesFile'.entries[Key(last'.digest)].content
                = last'.res.bytes)]_vars

(***************************************************************************)
(* C8: if find(D) returned a hit at time t, a successful prune pass at     *)
(* time t' with t' - t <= W (W a window that a Duration can hold), with no *)
(* call in between, keeps D in the index.                                  *)
(***************************************************************************)
C8_ReadHitRefreshes ==
    [][(/\ last.op = "find" /\ last.err = "nil" /\ ~last.res.isNil
        /\ Call("prune") /\ last'.err = "nil"
        /\ last'.numWeeks < OverflowWeeks
        /\ now - last.time <= Window(last'.numWeeks))
       => InIndex(entriesFile', last.digest)]_vars

C10_SaveFrame ==
    [][Call("save")
       => (/\ entriesFile' = entriesFile
           /\ last'.err = "nil"
              => (/\ InShards(files', last'.digest)
                  /\ files'[EntryPath(last'.digest)].content = last'.content))]_vars

\* a save replaced a file of other content while the index held the digest
C10_Witness ==
    /\ last.op = "save" /\ last.err = "nil"
    /\ InIndex(entriesFile, last.digest)
    /\ entriesFile.entries[Key(last.digest)].content # last.content
    /\ files[EntryPath(last.digest)].content = last.content

(***************************************************************************)
(* C11: when the index file exists and cannot be parsed as the expected    *)
(* document, be it no JSON at all or JSON in which some member is          *)
(* malformed, find(D) of a digest that is an entry of that document and    *)
(* has no sharded file returns absent and no error.                        *)
(***************************************************************************)
C11_CorruptIndexEmpty ==
    [][(/\ Call("find")
        /\ entriesFile.kind # "absent"
        /\ Unmarshal(entriesFile).err
        /\ InIndex(entriesFile, last'.digest)
        /\ ~InShards(files, last'.digest))
       => (last'.res = NilBytes /\ last'.err = "nil")]_vars

\* the state after the step, as one file system record
FSNext == [rootExists |-> rootExists', dirs |-> dirs', files |-> files']

\* what find(D) would return in the state before and after the step
FindBefore(digest) == FindEntryFx(FS, entriesFile, digest, "none", 0, now)

FindAfter(digest) == FindEntryFx(FSNext, entriesFile', digest, "none", 0, now')

(***************************************************************************)
(* C12: when a prune pass returns an error because the removal of a shard  *)
(* directory or the write of the index failed, every digest whose entry is *)
(* within the retention window and for which find returned content C       *)
(* before the pass still gets C from find after it.                        *)
(***************************************************************************)
C12_PruneFailureKeeps ==
    [][(/\ Call("prune")
        /\ last'.err # "nil"
        /\ last'.fault \in {"removeAll", "writeOpen", "writeData"}
        /\ last'.numWeeks < OverflowWeeks)
       => \A digest \in FaultDigests :
            (/\ Held(digest)
             /\ now - LastUsedOf(digest) <= Window(last'.numWeeks)
             /\ FindBefore(digest).err = "nil"
             /\ FindBefore(digest).res # NilBytes)
            => (/\ FindAfter(digest).err = "nil"
                /\ FindAfter(digest).res = FindBefore(digest).res)]_vars

(***************************************************************************)
(* C13: when the read of the one sharded file fails during the walk of a   *)
(* prune pass, the pass returns no error, the file is not migrated into    *)
(* the index, and the file is still in the sharded tree after the pass.    *)
(***************************************************************************)
C13_SkippedFileSurvives ==
    [][(/\ Call("prune")
        /\ last'.fault = "read"
        /\ DOMAIN files = {EntryPath(Digest1)}
        /\ ~InIndex(entriesFile, Digest1))
       => (/\ last'.err = "nil"
           /\ ~InIndex(entriesFile', Digest1)
           /\ InShards(files', Digest1)
           /\ files'[EntryPath(Digest1)] = files[EntryPath(Digest1)])]_vars

\* the sharded file of the digest, if there is one, holds valid UTF-8
TextInShards(digest) ==
    InShards(files, digest) =>
        ToValidUTF8(files[EntryPath(digest)].content) = files[EntryPath(digest)].content

(***************************************************************************)
(* C14: for every digest held in some tier, with text content and a        *)
(* last-used time within the retention window, find(D) returns the same    *)
(* result just before and just after a successful prune pass; the index    *)
(* may hold other content for D than the sharded file a later save left.   *)
(***************************************************************************)
C14_PruneTransparent ==
    [][(/\ Call("prune")
        /\ last'.err = "nil"
        /\ last'.numWeeks < OverflowWeeks)
       => \A digest \in Digests :
            (/\ Held(digest)
             /\ TextInShards(digest)
             /\ now - LastUsedOf(digest) <= Window(last'.numWeeks))
            => (/\ FindAfter(digest).err = FindBefore(digest).err
                /\ FindAfter(digest).res = FindBefore(digest).res)]_vars

\* the find of the step reaches the sharded tier: the index it reads has no entry
Fallback ==
    /\ Call("find")
    /\ LongDigest(last'.digest)
    /\ Key(last'.digest) \notin DOMAIN readJson(entriesFile, last'.fault)

(***************************************************************************)
(* C15: in the sharded fallback of find, when nothing exists at the entry  *)
(* path of D the result is absent with no error, and when the stat, the    *)
(* open or the read of the file fails for another reason the caller gets   *)
(* an error.                                                               *)
(***************************************************************************)
C15_NotFoundOrError ==
    [][Fallback =>
         /\ (/\ last'.fault \notin {"stat", "open", "read"}
             /\ ~StatExists(FS, EntryPath(last'.digest)))
            => (last'.res = NilBytes /\ last'.err = "nil")
         /\ last'.fault \in {"stat", "open", "read"} => last'.err # "nil"]_vars

\* a find whose open of the existing sharded file failed
C15_Witness ==
    /\ last.op = "find"
    /\ last.fault = "open"
    /\ last.err = "EIO"
    /\ InShards(files, last.digest)

\* the result of a find(D) made now, with no other call in progress
FindNow(digest) == FindEntryFx(FS, entriesFile, digest, "none", 0, now)

Returned(p) == procs[p].pc = "done" /\ procs[p].err = "nil"

(***************************************************************************)
(* C16: with no index and no prune pass, when the two concurrent saves of  *)
(* D have both returned, the sharded file of D holds exactly the content   *)
(* of one of them, and a find(D) running concurrently with them returns    *)
(* the content of one of them or the content stored before.                *)
(***************************************************************************)
C16_ConcurrentSaves ==
    (last.op = "save" /\ procs["prune"].pc = "idle")
    => /\ (Returned("save1") /\ Returned("save2"))
          => files[ConcPath.entryPath].content
                \in {SaveContent("save1"), SaveContent("save2")}
       /\ (Returned("find") /\ procs["find"].res # NilBytes)
          => procs["find"].res.bytes
                \in {SaveContent("save1"), SaveContent("save2"), StoredContent}

(***************************************************************************)
(* C17: with D in the index before the prune pass and kept by it, and no   *)
(* save in progress, a find(D) running concurrently with the pass reads an *)
(* index that holds D, and does not return absent.                         *)
(***************************************************************************)
C17_IndexRewriteAtomic ==
    (/\ last.op = "prune"
     /\ \A p \in Savers : procs[p].pc = "idle")
    => /\ procs["find"].pc \notin {"idle", "jread"}
          => Key(ConcDigest) \in DOMAIN procs["find"].entries
       /\ Returned("find") => procs["find"].res # NilBytes

(***************************************************************************)
(* C18: on a cache whose index has no entry for D yet, when save(D, C)     *)
(* has returned success while the prune pass of another process was in     *)
(* progress, and the pass has completed too without error, with no other   *)
(* call made, find(D) returns C.                                           *)
(***************************************************************************)
C18_SaveSurvivesPrune ==
    (/\ last.op = "save"
     /\ Returned("save1")
     /\ procs["save1"].during
     /\ Returned("prune")
     /\ procs["save2"].pc = "idle"
     /\ procs["find"].pc = "idle")
    => (/\ FindNow(ConcDigest).err = "nil"
        /\ FindNow(ConcDigest).res = Bytes(SaveContent("save1")))

\* digests that differ in the first two hex characters only, or after the
\* fourth only
PathDigests == {Digest1, Digest2, <<171, 1, 206>>, <<171, 1, 205, 0>>}

PathsDiffer ==
    \A d1, d2 \in PathDigests :
        d1 # d2 => EntryPath(d1) # EntryPath(d2)

\* a successful save of a digest of at least 5 hex characters
SavedLong(call) == call.op = "save" /\ call.err = "nil" /\ LongDigest(call.digest)

(***************************************************************************)
(* C19: distinct digests of at least 5 hex characters have distinct entry  *)
(* paths; a successful save(D1, C1) leaves the result of find(D2)          *)
(* unchanged for every other such digest, and find(D1) returns C1 after    *)
(* it, also after a following prune pass that keeps the entry.             *)
(***************************************************************************)
C19_DigestIsolation ==
    [][/\ PathsDiffer
       /\ (Call("save") /\ SavedLong(last'))
          => /\ \A d2 \in Digests \ {last'.digest} :
                  LongDigest(d2) =>
                     /\ FindAfter(d2).res = FindBefore(d2).res
                     /\ FindAfter(d2).err = FindBefore(d2).err
             /\ FindAfter(last'.digest).err = "nil"
             /\ FindAfter(last'.digest).res = Bytes(last'.content)
       /\ (/\ SavedLong(last)
           /\ Call("prune")
           /\ last'.err = "nil"
           /\ last'.numWeeks < OverflowWeeks
           /\ now - LastUsedOf(last.digest) <= Window(last'.numWeeks))
          => /\ FindAfter(last.digest).err = "nil"
             /\ FindAfter(last.digest).res = Bytes(last.content)]_vars

(***************************************************************************)
(* C20: a save or a find of a digest of fewer than 5 hex characters        *)
(* returns an error, leaves every file and directory below the cache root  *)
(* as it was, and leaves the result of find unchanged for every other      *)
(* digest.                                                                 *)
(***************************************************************************)
C20_ShortDigestFailsFast ==
    [][((Call("save") \/ Call("find")) /\ ~LongDigest(last'.digest))
       => (/\ last'.err # "nil"
           /\ UNCHANGED <<rootExists, dirs, files, entriesFile>>
           /\ \A d2 \in Digests \ {last'.digest} :
                /\ FindAfter(d2).res = FindBefore(d2).res
                /\ FindAfter(d2).err = FindBefore(d2).err)]_vars

====
